---- MODULE Spec2Model ----
(***************************************************************************)
(* Model of the quiz-buzzer firmware GeniesEnHerbe.ino (menu revision,     *)
(* src/GeniesEnHerbe/GeniesEnHerbe.ino): the button reader                 *)
(* readButtonState, the scan / lock / reset loop of loop() and the delay   *)
(* configuration menu, together with an environment that drives the raw    *)
(* input lines and the millisecond clock.                                  *)
(*                                                                         *)
(* Target boards are AVR: int is 16 bits, unsigned long is 32 bits.  An    *)
(* unsigned long is kept as its two 16-bit halves [hi, lo].                *)
(***************************************************************************)
EXTENDS Integers, Sequences, FiniteSets, TLC

(***************************************************************************)
(* Compiled-in configuration                                               *)
(***************************************************************************)
numTeams == 2
numPlayers == 4
debounceDelay == 50
startupDelay == 30000
\* delay(1000) of every iteration of the menu
menuDelay == 1000
usePotentiometer == FALSE
\* analogRead returns a value between 0 and analogMax
analogMax == 1023
\* readings above potManual ask for a manual reset
potManual == 1000

LOW == "LOW"
HIGH == "HIGH"

(***************************************************************************)
(* Bounds of the exploration                                               *)
(***************************************************************************)
\* length in ms of the short clock step of the reader's harness
TickShort == 30
\* number of clock steps shorter than a second explored in one run
MaxFine == 2
\* ms explored after the end of setup()
Horizon == 6000
\* ms before the 32-bit wraparound of millis() at which a long idle period ends
WrapLead == 1020
\* ms explored after the wraparound of millis()
WrapHorizon == 1100
\* buzzers held down at the same time
MaxPressed == 2
\* players of each team, in scan order, whose buzzers are ever pressed
PlayersPressing == 2
\* revision for the Nano: length in ms of the short clock step
NanoTickShort == 500
\* revision for the Nano: number of short clock steps explored in one run
NanoMaxFine == 1
\* revision for the Nano: ms explored after the end of setup()
NanoHorizon == 28000

(***************************************************************************)
(* Integer widths                                                          *)
(***************************************************************************)
Word == 65536
HalfWord == 32768

\* unsigned long from its halves
UL(h, l) == [hi |-> h, lo |-> l]

\* unsigned long + n, for 0 <= n < Word, modulo 2^32
ULPlus(a, n) ==
  LET s == a.lo + n
  IN  UL((a.hi + (s \div Word)) % Word, s % Word)

\* unsigned long - unsigned long, modulo 2^32
ULMinus(a, b) ==
  LET borrow == IF a.lo < b.lo THEN 1 ELSE 0
  IN  UL((a.hi - b.hi - borrow) % Word, (a.lo - b.lo) % Word)

ULLess(a, b) == a.hi < b.hi \/ (a.hi = b.hi /\ a.lo < b.lo)

\* conversion unsigned long -> int: the low 16 bits, read as two's complement
ULongToInt(a) == IF a.lo >= HalfWord THEN a.lo - Word ELSE a.lo

\* conversion int -> unsigned long: sign extension
IntToULong(i) == IF i < 0 THEN UL(Word - 1, i + Word) ELSE UL(0, i)

\* int arithmetic result stored in an int
ToInt(x) == LET r == x % Word IN IF r >= HalfWord THEN r - Word ELSE r

\* unsigned long + unsigned long, modulo 2^32
ULAdd(a, b) ==
  LET s == a.lo + b.lo
  IN  UL((a.hi + b.hi + (s \div Word)) % Word, s % Word)

\* unsigned long * w, for 0 <= w < Word, modulo 2^32: double and add
RECURSIVE ULTimesWord(_, _)
ULTimesWord(a, w) ==
  IF w = 0 THEN UL(0, 0)
  ELSE LET h == ULTimesWord(a, w \div 2)
           d == ULAdd(h, h)
       IN  IF w % 2 = 1 THEN ULAdd(d, a) ELSE d

\* unsigned long * unsigned long, modulo 2^32
ULTimes(a, b) ==
  ULAdd(ULTimesWord(a, b.lo), UL(ULTimesWord(a, b.hi).lo, 0))

\* unsigned long / unsigned long, for a divisor below 2^15: long division
\* on the two halves
ULDiv(a, b) ==
  LET r == a.hi % b.lo
  IN  UL(a.hi \div b.lo, (r * Word + a.lo) \div b.lo)

delayResetMax == UL(0, 5000)

(***************************************************************************)
(* Buttons                                                                 *)
(***************************************************************************)
Teams == 0 .. (numTeams - 1)
Players == 0 .. (numPlayers - 1)
BuzzerId(tm, pl) == tm * numPlayers + pl
Buzzers == 0 .. (numTeams * numPlayers - 1)
WhiteId == numTeams * numPlayers
Buttons == Buzzers \cup {WhiteId}

\* struct Button, without the pin numbers
Button(bs, lbs, ldt) ==
  [buttonState |-> bs, lastButtonState |-> lbs, lastDebounceTime |-> ldt]

NoBuzz == -1

VARIABLES
  clock,        \* millis(): unsigned long
  wrapped,      \* the clock has wrapped around since boot
  fine,         \* sub-second clock steps taken so far
  raw,          \* level of every input line, as digitalRead returns it
  held,         \* ms the line has been at its level, capped at debounceDelay + 1
  fresh,        \* the program has run since the inputs or the clock last changed
  buzzers,      \* struct Button buzzers[numTeams][numPlayers]
  whiteButton,  \* struct Button whiteButton
  delayReset,   \* int delayReset
  pc,           \* position of loop()
  sleep,        \* ms left of the delay() in progress
  team, player, \* loop iterators
  someoneBuzzed, teamBuzz, playerBuzz,
  timestamp,    \* unsigned long timestamp
  greenLED,     \* level of pinGreenLED
  led,          \* level of every buzzer's pinLED
  lcd,          \* what the LCD shows
  poll,         \* the calls of readButtonState made by the last step of loop()
  waited,      \* ms spent in the wait so far (0 outside the wait)
  resetPress,   \* the white button is still in the press that ended the wait
  lastExit,     \* how the last wait ended: "timeout", "manual" or "none"
  menuEntry,    \* delayReset when the menu was entered (0 outside the menu)
  menuSteps,    \* candidate delays passed since the menu was entered
  menuPress,    \* the white button is still in the press that opened the menu
  delayReset2,  \* int delayReset2 (revision for the Nano)
  analog,       \* level of pinDelay, as analogRead returns it
  probe,        \* reader's harness: the button under test
  lastRet,      \* reader's harness: the value the previous call returned
  runChanges    \* reader's harness: changes of the returned value since
                \* the line last changed level

vars == <<clock, wrapped, fine, raw, held, fresh, buzzers, whiteButton,
          delayReset, pc, sleep, team, player, someoneBuzzed, teamBuzz,
          playerBuzz, timestamp, greenLED, led, lcd, poll, waited, resetPress,
          lastExit, menuEntry, menuSteps, menuPress, delayReset2, analog,
          probe, lastRet, runChanges>>

envVars == <<clock, wrapped, fine, raw, held, analog, probe, lastRet,
            runChanges>>
ghostVars == <<waited, resetPress, lastExit>>
menuVars == <<menuEntry, menuSteps, menuPress, delayReset2>>
\* what a change of an input line leaves alone
envFrame == <<buzzers, whiteButton, delayReset, pc, sleep, team, player,
              someoneBuzzed, teamBuzz, playerBuzz, timestamp, greenLED, led,
              lcd, lastExit, menuEntry, menuSteps, delayReset2, analog, probe,
              lastRet, runChanges>>

(***************************************************************************)
(* readButtonState                                                         *)
(***************************************************************************)
\* the body of readButtonState on its parameter `button`: the Button it
\* leaves in the parameter, whose buttonState is the value returned
readButtonState(button, reading, millis) ==
  LET ldt == IF reading # button.lastButtonState
               THEN ULongToInt(millis)
               ELSE button.lastDebounceTime
      elapsed == ULMinus(millis, IntToULong(ldt))
      bs == IF ULLess(UL(0, debounceDelay), elapsed)
              THEN reading
              ELSE button.buttonState
  IN  Button(bs, reading, ldt)

\* the parameter is passed by value: what the call does to its copy is lost
ArgumentAfterCall(caller, callee) == caller

Cap == debounceDelay + 1

(***************************************************************************)
(* setup()                                                                 *)
(***************************************************************************)
\* ms spent in the delay() calls of setup(): the boot tune, the warm-up
\* and the last pause
SetupTime == ((15000 - 150) \div 10 + 1) + 5 * (startupDelay \div 5) + 100

LcdReady == [mode |-> "ready", x |-> 0, y |-> 0, shown |-> 0]

Init ==
  /\ clock = UL(0, SetupTime)
  /\ wrapped = FALSE
  /\ fine = 0
  /\ raw = [b \in Buttons |-> HIGH]
  /\ held = [b \in Buttons |-> Cap]
  /\ fresh = FALSE
  /\ buzzers = [b \in Buzzers |-> Button(HIGH, LOW, 0)]
  /\ whiteButton = Button(HIGH, LOW, 0)
  /\ delayReset = ULongToInt(delayResetMax)
  /\ pc = "scan"
  /\ sleep = 0
  /\ team = 0
  /\ player = 0
  /\ someoneBuzzed = FALSE
  /\ teamBuzz = NoBuzz
  /\ playerBuzz = NoBuzz
  /\ timestamp = UL(0, 0)
  /\ greenLED = HIGH
  /\ led = [b \in Buzzers |-> LOW]
  /\ lcd = LcdReady
  /\ poll = <<>>
  /\ waited = 0
  /\ resetPress = FALSE
  /\ lastExit = "none"
  /\ menuEntry = 0
  /\ delayReset2 = 0
  /\ menuSteps = 0
  /\ menuPress = FALSE
  /\ analog = 0
  /\ probe = NoBuzz
  /\ lastRet = HIGH
  /\ runChanges = 0

(***************************************************************************)
(* loop(): the scan                                                        *)
(***************************************************************************)
Abs(n) == IF n < 0 THEN -n ELSE n

\* record of a call of readButtonState on button b, whose Button is `button`
Polled(b, button) ==
  [button |-> b, reading |-> raw[b],
   ret |-> readButtonState(button, raw[b], clock).buttonState,
   held |-> held[b]]

\* The two nested for loops, from buzzer number i on, all reads being made
\* at the same millisecond.  s carries the Buttons and the calls made so
\* far.  The scan ends on the first buzzer that reads
\* LOW ("hit"), on the first read of the white button that returns LOW
\* ("menu"), or after the last buzzer ("miss").
\* variant of the scan without the break: the last buzzer that reads LOW wins
ScanFromNoBreak(i, s) ==
  LET hits == {j \in i .. (numTeams * numPlayers - 1) :
                 readButtonState(s.buzzers[j], raw[j], clock).buttonState = LOW}
      last == CHOOSE j \in hits : \A k \in hits : k <= j
      rw == readButtonState(s.whiteButton, raw[WhiteId], clock)
  IN  IF hits # {}
        THEN [s EXCEPT !.kind = "hit", !.at = last,
                       !.poll = <<Polled(last, s.buzzers[last])>>]
        ELSE IF rw.buttonState = LOW
          THEN [s EXCEPT !.kind = "menu", !.at = i,
                         !.poll = <<Polled(WhiteId, s.whiteButton)>>]
          ELSE [s EXCEPT !.kind = "miss", !.at = 0,
                         !.poll = <<Polled(WhiteId, s.whiteButton)>>]

\* variant of the scan that reads every buzzer before it looks for the
\* first one that reads LOW
ScanFromReadsAll(i, s) ==
  LET n == numTeams * numPlayers
      hits == {j \in i .. (n - 1) :
                 readButtonState(s.buzzers[j], raw[j], clock).buttonState = LOW}
      first == CHOOSE j \in hits : \A k \in hits : j <= k
      rw == readButtonState(s.whiteButton, raw[WhiteId], clock)
      all == [k \in 1 .. (n - i) |-> Polled(i + k - 1, s.buzzers[i + k - 1])]
  IN  IF hits # {}
        THEN [s EXCEPT !.kind = "hit", !.at = first, !.poll = all]
        ELSE IF rw.buttonState = LOW
          THEN [s EXCEPT !.kind = "menu", !.at = i,
                         !.poll = <<Polled(WhiteId, s.whiteButton)>>]
          ELSE [s EXCEPT !.kind = "miss", !.at = 0,
                         !.poll = <<Polled(WhiteId, s.whiteButton)>>]

RECURSIVE ScanFrom(_, _)
ScanFrom(i, s) ==
  IF i = numTeams * numPlayers
    THEN [s EXCEPT !.kind = "miss", !.at = 0]
    ELSE
      LET rb == readButtonState(s.buzzers[i], raw[i], clock)
          s1 == [s EXCEPT
                   !.buzzers[i] = ArgumentAfterCall(@, rb),
                   !.poll = Append(@, Polled(i, s.buzzers[i])),
                   !.at = i]
          rw == readButtonState(s1.whiteButton, raw[WhiteId], clock)
          s2 == [s1 EXCEPT
                   !.whiteButton = ArgumentAfterCall(@, rw),
                   !.poll = Append(@, Polled(WhiteId, s1.whiteButton))]
      IN  IF rb.buttonState = LOW
            THEN [s1 EXCEPT !.kind = "hit"]
            ELSE IF usePotentiometer
              THEN ScanFrom(i + 1, s1)
              ELSE IF rw.buttonState = LOW
                THEN [s2 EXCEPT !.kind = "menu"]
                ELSE ScanFrom(i + 1, s2)

\* the scan that resumes at the iterators team, player
Scan ==
  ScanFrom(BuzzerId(team, player),
           [kind |-> "", at |-> 0, buzzers |-> buzzers,
            whiteButton |-> whiteButton, poll |-> <<>>])

TeamOf(i) == i \div numPlayers
PlayerOf(i) == i % numPlayers

\* player++ / team++ of the for loops after the iteration of buzzer i; after
\* the last buzzer loop() returns and is called again
NextIteration(i) ==
  IF i + 1 < numTeams * numPlayers
    THEN /\ team' = TeamOf(i + 1)
         /\ player' = PlayerOf(i + 1)
    ELSE /\ team' = 0
         /\ player' = 0

\* valPot after the test of the reading: -1 stands for a manual reset
PotValue(reading) == IF reading > potManual THEN -1 ELSE reading

\* variant that stores the result in a 32 bit long instead of a 16 bit int
PotDelayLong(valPot) ==
  LET q == ULDiv(ULTimes(IntToULong(valPot), delayResetMax),
                 IntToULong(1000))
  IN  IF q.hi >= HalfWord THEN (q.hi - Word) * Word + q.lo
      ELSE q.hi * Word + q.lo

\* variant that computes the product in a 16 bit int
PotDelayInt(valPot) == ToInt(valPot * 5000) \div 1000

\* delayReset = valPot*delayResetMax/1000: valPot is converted to unsigned
\* long, the product and the quotient are unsigned long, the result is
\* converted to int
PotDelay(valPot) ==
  ULongToInt(ULDiv(ULTimes(IntToULong(valPot), delayResetMax),
                   IntToULong(1000)))

\* the potentiometer is read and delayReset is computed from it
PotentiometerRead == delayReset' = PotDelay(PotValue(analog))

\* variant of the buzz whose LCD region is computed from the iterators as
\* they were when the scan resumed, not as the break leaves them
ScanHitStaleIterators ==
  /\ pc = "scan"
  /\ Scan.kind = "hit"
  /\ buzzers' = Scan.buzzers
  /\ whiteButton' = Scan.whiteButton
  /\ poll' = Scan.poll
  /\ UNCHANGED <<team, player>>
  /\ someoneBuzzed' = TRUE
  /\ teamBuzz' = TeamOf(Scan.at)
  /\ playerBuzz' = PlayerOf(Scan.at)
  /\ greenLED' = LOW
  /\ led' = [led EXCEPT ![BuzzerId(teamBuzz', playerBuzz')] = HIGH]
  /\ lcd' = [mode |-> "buzz",
             x |-> IF team = 1 THEN player * 4 ELSE Abs(player - 3) * 4,
             y |-> team * 2, shown |-> 0]
  /\ timestamp' = clock
  /\ pc' = "wait"
  /\ lastExit' = "none"
  /\ fresh' = TRUE
  /\ IF usePotentiometer THEN PotentiometerRead ELSE UNCHANGED delayReset
  /\ UNCHANGED <<envVars, menuVars, waited, resetPress, sleep>>

\* a buzzer read is LOW: flag, break out of both loops, light the winner,
\* read the potentiometer if it is used, draw the winner's LCD region and
\* start the wait
ScanHit ==
  /\ pc = "scan"
  /\ Scan.kind = "hit"
  /\ buzzers' = Scan.buzzers
  /\ whiteButton' = Scan.whiteButton
  /\ poll' = Scan.poll
  /\ team' = TeamOf(Scan.at)
  /\ player' = PlayerOf(Scan.at)
  /\ someoneBuzzed' = TRUE
  /\ teamBuzz' = team'
  /\ playerBuzz' = player'
  /\ greenLED' = LOW
  /\ led' = [led EXCEPT ![BuzzerId(teamBuzz', playerBuzz')] = HIGH]
  /\ lcd' = [mode |-> "buzz",
             x |-> IF team' = 1 THEN player' * 4 ELSE Abs(player' - 3) * 4,
             y |-> team' * 2, shown |-> 0]
  /\ timestamp' = clock
  /\ pc' = "wait"
  /\ lastExit' = "none"
  /\ fresh' = TRUE
  /\ IF usePotentiometer THEN PotentiometerRead ELSE UNCHANGED delayReset
  /\ UNCHANGED <<envVars, menuVars, waited, resetPress, sleep>>

\* a read of the white button is LOW before any buzzer reads LOW: setup mode
ScanMenu ==
  /\ pc = "scan"
  /\ Scan.kind = "menu"
  /\ buzzers' = Scan.buzzers
  /\ whiteButton' = Scan.whiteButton
  /\ poll' = Scan.poll
  /\ team' = TeamOf(Scan.at)
  /\ player' = PlayerOf(Scan.at)
  /\ pc' = "menu"
  /\ fresh' = TRUE
  /\ menuEntry' = delayReset
  /\ UNCHANGED delayReset2
  /\ menuSteps' = 0
  /\ menuPress' = TRUE
  /\ UNCHANGED <<envVars, ghostVars, delayReset, sleep, someoneBuzzed,
                 teamBuzz, playerBuzz, timestamp, greenLED, led, lcd>>

\* variant of the scan that may give up although a read is LOW
ScanMissDespiteLow ==
  /\ pc = "scan"
  /\ team' = 0
  /\ player' = 0
  /\ poll' = <<>>
  /\ fresh' = TRUE
  /\ UNCHANGED <<envVars, menuVars, ghostVars, buzzers, whiteButton,
                 delayReset, pc, sleep, someoneBuzzed, teamBuzz, playerBuzz,
                 timestamp, greenLED, led, lcd>>

\* every read is HIGH: loop() returns and is called again
ScanMiss ==
  /\ pc = "scan"
  /\ Scan.kind = "miss"
  /\ buzzers' = Scan.buzzers
  /\ whiteButton' = Scan.whiteButton
  /\ poll' = Scan.poll
  /\ team' = 0
  /\ player' = 0
  /\ fresh' = TRUE
  /\ UNCHANGED <<envVars, menuVars, ghostVars, delayReset, pc, sleep,
                 someoneBuzzed, teamBuzz, playerBuzz, timestamp, greenLED,
                 led, lcd>>

\* the calls of the white button outside the scan
ReadWhite == readButtonState(whiteButton, raw[WhiteId], clock)
WhiteAfterCall == ArgumentAfterCall(whiteButton, ReadWhite)
PollWhite == Polled(WhiteId, whiteButton)

(***************************************************************************)
(* loop(): the delay configuration menu                                    *)
(***************************************************************************)
\* variant of the chain that goes from delayResetMax straight to -1
MenuAdvanceCeilingToInfinite(d) ==
  IF d < 0 THEN 1000
  ELSE IF ULLess(IntToULong(d), delayResetMax) THEN ToInt(d + 1000)
  ELSE -1

\* variant of the chain that restarts from 0 after the infinite delay
MenuAdvanceRestartsAtZero(d) ==
  IF d < 0 THEN 0
  ELSE IF ULLess(IntToULong(d), delayResetMax) THEN ToInt(d + 1000)
  ELSE IF IntToULong(d) = delayResetMax THEN ToInt(d * 2)
  ELSE IF ULLess(delayResetMax, IntToULong(d)) THEN -1
  ELSE d

\* the line of the menu that shows the delay d: the whole seconds of d when
\* d > 0, "Delai infini" otherwise
MenuMessage(d) ==
  IF d > 0 THEN [text |-> "Delai de", sec |-> d \div 1000]
           ELSE [text |-> "Delai infini", sec |-> 0]

\* the if / else if chain that moves delayReset to the next candidate
MenuAdvance(d) ==
  IF d < 0 THEN 1000
  ELSE IF ULLess(IntToULong(d), delayResetMax) THEN ToInt(d + 1000)
  ELSE IF IntToULong(d) = delayResetMax THEN ToInt(d * 2)
  ELSE IF ULLess(delayResetMax, IntToULong(d)) THEN -1
  ELSE d

\* top of while (true): overwrite the white button's state, show the delay,
\* delay(1000)
MenuShow ==
  /\ pc = "menu"
  /\ whiteButton' = [whiteButton EXCEPT !.buttonState = HIGH,
                                        !.lastButtonState = HIGH]
  /\ lcd' = [mode |-> "menu", x |-> 0, y |-> 0, shown |-> delayReset]
  /\ sleep' = menuDelay
  /\ pc' = "menu_check"
  /\ poll' = <<>>
  /\ fresh' = TRUE
  /\ UNCHANGED <<envVars, menuVars, ghostVars, buzzers, delayReset, team,
                 player, someoneBuzzed, teamBuzz, playerBuzz, timestamp,
                 greenLED, led>>

\* variant of the confirmation that comes after the step to the next
\* candidate delay
MenuConfirmAfterStep ==
  /\ pc = "menu_check"
  /\ sleep = 0
  /\ ReadWhite.buttonState = LOW
  /\ whiteButton' = WhiteAfterCall
  /\ poll' = <<PollWhite>>
  /\ lcd' = [lcd EXCEPT !.mode = "confirmed"]
  /\ delayReset' = MenuAdvance(delayReset)
  /\ sleep' = 2000
  /\ pc' = "menu_leave"
  /\ fresh' = TRUE
  /\ UNCHANGED <<envVars, menuVars, ghostVars, buzzers, team, player,
                 someoneBuzzed, teamBuzz, playerBuzz, timestamp, greenLED,
                 led>>

\* after the delay the white button reads LOW: confirmed, delay(2000)
MenuConfirm ==
  /\ pc = "menu_check"
  /\ sleep = 0
  /\ ReadWhite.buttonState = LOW
  /\ whiteButton' = WhiteAfterCall
  /\ poll' = <<PollWhite>>
  /\ lcd' = [lcd EXCEPT !.mode = "confirmed"]
  /\ sleep' = 2000
  /\ pc' = "menu_leave"
  /\ fresh' = TRUE
  /\ UNCHANGED <<envVars, menuVars, ghostVars, buzzers, delayReset, team,
                 player, someoneBuzzed, teamBuzz, playerBuzz, timestamp,
                 greenLED, led>>

\* variant of the menu that skips a candidate delay at every iteration
MenuStepTwice ==
  /\ pc = "menu_check"
  /\ sleep = 0
  /\ ReadWhite.buttonState # LOW
  /\ whiteButton' = WhiteAfterCall
  /\ poll' = <<PollWhite>>
  /\ delayReset' = MenuAdvance(MenuAdvance(delayReset))
  /\ pc' = "menu"
  /\ fresh' = TRUE
  /\ menuSteps' = menuSteps + 1
  /\ UNCHANGED <<menuEntry, menuPress, delayReset2>>
  /\ UNCHANGED <<envVars, ghostVars, buzzers, sleep, team, player,
                 someoneBuzzed, teamBuzz, playerBuzz, timestamp, greenLED,
                 led, lcd>>

\* after the delay the white button reads HIGH: next candidate delay
MenuStep ==
  /\ pc = "menu_check"
  /\ sleep = 0
  /\ ReadWhite.buttonState # LOW
  /\ whiteButton' = WhiteAfterCall
  /\ poll' = <<PollWhite>>
  /\ delayReset' = MenuAdvance(delayReset)
  /\ pc' = "menu"
  /\ fresh' = TRUE
  /\ menuSteps' = menuSteps + 1
  /\ UNCHANGED <<menuEntry, menuPress, delayReset2>>
  /\ UNCHANGED <<envVars, ghostVars, buzzers, sleep, team, player,
                 someoneBuzzed, teamBuzz, playerBuzz, timestamp, greenLED,
                 led, lcd>>

\* break out of while (true), reset_lcd_display(), back to the for loop
MenuLeave ==
  /\ pc = "menu_leave"
  /\ sleep = 0
  /\ lcd' = LcdReady
  /\ NextIteration(BuzzerId(team, player))
  /\ pc' = "scan"
  /\ poll' = <<>>
  /\ fresh' = TRUE
  /\ menuEntry' = 0
  /\ UNCHANGED delayReset2
  /\ menuSteps' = 0
  /\ menuPress' = FALSE
  /\ UNCHANGED <<envVars, ghostVars, buzzers, whiteButton, delayReset, sleep,
                 someoneBuzzed, teamBuzz, playerBuzz, timestamp, greenLED,
                 led>>

(***************************************************************************)
(* loop(): the wait before the reset                                       *)
(***************************************************************************)
\* variant of the condition that compares the clock itself with the delay
WaitConditionNoTimestamp ==
  \/ delayReset < 0
  \/ ULLess(clock, IntToULong(delayReset))

\* variant of the condition without the test of the sign of delayReset
WaitConditionUnsigned ==
  ULLess(ULMinus(clock, timestamp), UL(0, Abs(delayReset)))

\* variant of the condition that compares the clock with a deadline
WaitConditionDeadline ==
  \/ delayReset < 0
  \/ ULLess(clock, ULAdd(timestamp, IntToULong(delayReset)))

\* condition of the while loop of the wait
WaitCondition ==
  \/ delayReset < 0
  \/ ULLess(ULMinus(clock, timestamp), IntToULong(delayReset))

\* variant of the reset that leaves the winner's LED on
ResetMachineLedOn ==
  /\ greenLED' = HIGH
  /\ led' = led
  /\ lcd' = LcdReady
  /\ someoneBuzzed' = FALSE
  /\ teamBuzz' = NoBuzz
  /\ playerBuzz' = NoBuzz
  /\ timestamp' = UL(0, 0)
  /\ waited' = 0
  /\ team' = 0
  /\ player' = 0
  /\ pc' = "scan"

\* end of the wait: green LED on, winner's LED off, LCD reset; loop()
\* returns and starts again
ResetMachine ==
  /\ greenLED' = HIGH
  /\ led' = [led EXCEPT ![BuzzerId(teamBuzz, playerBuzz)] = LOW]
  /\ lcd' = LcdReady
  /\ someoneBuzzed' = FALSE
  /\ teamBuzz' = NoBuzz
  /\ playerBuzz' = NoBuzz
  /\ timestamp' = UL(0, 0)
  /\ waited' = 0
  /\ team' = 0
  /\ player' = 0
  /\ pc' = "scan"

\* variant of the timeout that puts delayReset back to delayResetMax
WaitTimeoutRestoresDelay ==
  /\ pc = "wait"
  /\ ~WaitCondition
  /\ ResetMachine
  /\ lastExit' = "timeout"
  /\ poll' = <<>>
  /\ fresh' = TRUE
  /\ delayReset' = ULongToInt(delayResetMax)
  /\ UNCHANGED <<envVars, menuVars, resetPress, buzzers, whiteButton, sleep>>

\* the delay has ended
WaitTimeout ==
  /\ pc = "wait"
  /\ ~WaitCondition
  /\ ResetMachine
  /\ lastExit' = "timeout"
  /\ poll' = <<>>
  /\ fresh' = TRUE
  /\ UNCHANGED <<envVars, menuVars, resetPress, buzzers, whiteButton,
                 delayReset, sleep>>

\* variant of the wait that reads the buzzers again
WaitPollRescan ==
  /\ pc = "wait"
  /\ WaitCondition
  /\ ReadWhite.buttonState # LOW
  /\ whiteButton' = WhiteAfterCall
  /\ poll' = <<PollWhite, Polled(0, buzzers[0])>>
  /\ led' = [b \in Buzzers |->
              IF readButtonState(buzzers[b], raw[b], clock).buttonState = LOW
                THEN HIGH ELSE led[b]]
  /\ fresh' = TRUE
  /\ UNCHANGED <<envVars, menuVars, ghostVars, buzzers, delayReset, pc,
                 sleep, team, player, someoneBuzzed, teamBuzz, playerBuzz,
                 timestamp, greenLED, lcd>>

\* variant of the wait that takes the timestamp again at every pass
WaitPollRearm ==
  /\ pc = "wait"
  /\ WaitCondition
  /\ ReadWhite.buttonState # LOW
  /\ whiteButton' = WhiteAfterCall
  /\ poll' = <<PollWhite>>
  /\ timestamp' = clock
  /\ fresh' = TRUE
  /\ UNCHANGED <<envVars, menuVars, ghostVars, buzzers, delayReset, pc,
                 sleep, team, player, someoneBuzzed, teamBuzz, playerBuzz,
                 greenLED, led, lcd>>

\* the delay has not ended and the white button reads HIGH
WaitPoll ==
  /\ pc = "wait"
  /\ WaitCondition
  /\ ReadWhite.buttonState # LOW
  /\ whiteButton' = WhiteAfterCall
  /\ poll' = <<PollWhite>>
  /\ fresh' = TRUE
  /\ UNCHANGED <<envVars, menuVars, ghostVars, buzzers, delayReset, pc,
                 sleep, team, player, someoneBuzzed, teamBuzz, playerBuzz,
                 timestamp, greenLED, led, lcd>>

\* variant of the wait in which a LOW read of the white button opens the menu
WaitManualOpensMenu ==
  /\ pc = "wait"
  /\ WaitCondition
  /\ ReadWhite.buttonState = LOW
  /\ whiteButton' = WhiteAfterCall
  /\ poll' = <<PollWhite>>
  /\ pc' = "menu"
  /\ fresh' = TRUE
  /\ UNCHANGED <<envVars, menuVars, ghostVars, buzzers, delayReset, sleep,
                 team, player, someoneBuzzed, teamBuzz, playerBuzz,
                 timestamp, greenLED, led, lcd>>

\* the delay has not ended and the white button reads LOW: wait for release
WaitManual ==
  /\ pc = "wait"
  /\ WaitCondition
  /\ ReadWhite.buttonState = LOW
  /\ whiteButton' = WhiteAfterCall
  /\ poll' = <<PollWhite>>
  /\ pc' = "release"
  /\ resetPress' = TRUE
  /\ sleep' = 0
  /\ fresh' = TRUE
  /\ UNCHANGED <<envVars, menuVars, waited, lastExit, buzzers, delayReset,
                 team, player, someoneBuzzed, teamBuzz, playerBuzz,
                 timestamp, greenLED, led, lcd>>

\* variant without the inner while: the reset follows the first LOW read
ReleaseNoWait ==
  /\ pc = "release"
  /\ sleep = 0
  /\ ReadWhite.buttonState = LOW
  /\ whiteButton' = WhiteAfterCall
  /\ poll' = <<PollWhite>>
  /\ ResetMachine
  /\ lastExit' = "manual"
  /\ fresh' = TRUE
  /\ UNCHANGED <<envVars, menuVars, resetPress, buzzers, delayReset, sleep>>

\* inner while: the white button still reads LOW, delay(debounceDelay)
ReleaseHeld ==
  /\ pc = "release"
  /\ sleep = 0
  /\ ReadWhite.buttonState = LOW
  /\ whiteButton' = WhiteAfterCall
  /\ poll' = <<PollWhite>>
  /\ sleep' = debounceDelay
  /\ fresh' = TRUE
  /\ UNCHANGED <<envVars, menuVars, ghostVars, buzzers, delayReset, pc,
                 team, player, someoneBuzzed, teamBuzz, playerBuzz,
                 timestamp, greenLED, led, lcd>>

\* inner while: the white button reads HIGH, break twice and reset
ReleaseDone ==
  /\ pc = "release"
  /\ sleep = 0
  /\ ReadWhite.buttonState # LOW
  /\ whiteButton' = WhiteAfterCall
  /\ poll' = <<PollWhite>>
  /\ ResetMachine
  /\ lastExit' = "manual"
  /\ fresh' = TRUE
  /\ UNCHANGED <<envVars, menuVars, resetPress, buzzers, delayReset, sleep>>

(***************************************************************************)
(* Environment: input lines and clock                                      *)
(***************************************************************************)
\* the long clock step: one iteration of the menu
TickLong == menuDelay

Min(a, b) == IF a < b THEN a ELSE b

Flip(level) == IF level = LOW THEN HIGH ELSE LOW

Pressed == {b \in Buzzers : raw[b] = LOW}
\* lines that changed level within the last debounceDelay ms
Unstable == {b \in Buttons : held[b] < Cap}

\* an input line changes level; the lines settle one at a time: none changes
\* while another one is still within debounceDelay ms of its last change
RawChange(b) ==
  /\ b \in Buzzers => PlayerOf(b) < PlayersPressing
  /\ (b \in Buzzers /\ raw[b] = HIGH) => Cardinality(Pressed) < MaxPressed
  /\ Unstable \subseteq {b}
  /\ raw' = [raw EXCEPT ![b] = Flip(@)]
  /\ held' = [held EXCEPT ![b] = 0]
  /\ resetPress' = (resetPress /\ b # WhiteId)
  /\ menuPress' = (menuPress /\ b # WhiteId)
  /\ fresh' = FALSE
  /\ poll' = <<>>
  /\ UNCHANGED <<clock, wrapped, fine, waited, envFrame>>

InHorizon(c, w) ==
  IF w THEN c.hi = 0 /\ c.lo <= WrapHorizon
       ELSE \/ c.hi = 0 /\ c.lo <= SetupTime + Horizon
            \/ c.hi = Word - 1

\* d ms pass: within a delay() at most what is left of it, otherwise only
\* between two passes of a polling loop
Tick(d) ==
  /\ d > 0
  /\ IF sleep > 0 THEN d <= sleep ELSE pc \in {"scan", "wait"} /\ fresh
  /\ d < TickLong => fine < MaxFine
  /\ fine' = IF d < TickLong THEN fine + 1 ELSE fine
  /\ clock' = ULPlus(clock, d)
  /\ wrapped' = (wrapped \/ ULLess(ULPlus(clock, d), clock))
  /\ InHorizon(clock', wrapped')
  /\ held' = [b \in Buttons |-> Min(held[b] + d, Cap)]
  /\ sleep' = IF sleep > 0 THEN sleep - d ELSE 0
  /\ waited' = IF pc \in {"wait", "release"} THEN waited + d ELSE 0
  /\ fresh' = FALSE
  /\ poll' = <<>>
  /\ UNCHANGED <<raw, buzzers, whiteButton, delayReset, pc, team, player,
                 someoneBuzzed, teamBuzz, playerBuzz, timestamp, greenLED,
                 led, lcd, resetPress, lastExit, menuVars, analog, probe,
                 lastRet, runChanges>>

\* the machine is left idle until shortly before millis() wraps around
IdleUntilWrap ==
  /\ pc = "scan"
  /\ fresh
  /\ ~wrapped
  /\ clock.hi = 0
  /\ \A b \in Buttons : raw[b] = HIGH
  /\ clock' = ULMinus(UL(0, 0), UL(0, WrapLead))
  /\ held' = [b \in Buttons |-> Cap]
  /\ fine' = fine
  /\ fresh' = FALSE
  /\ poll' = <<>>
  /\ UNCHANGED <<wrapped, raw, waited, resetPress, menuPress, envFrame>>

Environment ==
  \/ \E b \in Buttons : RawChange(b)
  \/ \E d \in {TickLong, sleep} : Tick(d)
  \/ IdleUntilWrap

Program ==
  \/ ScanHit \/ ScanMenu \/ ScanMiss
  \/ MenuShow \/ MenuConfirm \/ MenuStep \/ MenuLeave
  \/ WaitTimeout \/ WaitPoll \/ WaitManual
  \/ ReleaseHeld \/ ReleaseDone

Next == Environment \/ Program

Spec == Init /\ [][Next]_vars

(***************************************************************************)
(* setup() as a step of its own, over several compiled-in initial delays   *)
(***************************************************************************)
\* values of the initialiser of delayReset: the one of the source and a
\* delay of no length
CompiledDelays == {0, ULongToInt(delayResetMax)}

LcdOff == [mode |-> "off", x |-> 0, y |-> 0, shown |-> 0]

InitSetup ==
  /\ clock = UL(0, 0)
  /\ wrapped = FALSE
  /\ fine = 0
  /\ raw = [b \in Buttons |-> HIGH]
  /\ held = [b \in Buttons |-> Cap]
  /\ fresh = FALSE
  /\ buzzers = [b \in Buzzers |-> Button(HIGH, LOW, 0)]
  /\ whiteButton = Button(HIGH, LOW, 0)
  /\ delayReset \in CompiledDelays
  /\ pc = "setup"
  /\ sleep = 0
  /\ team = 0
  /\ player = 0
  /\ someoneBuzzed = FALSE
  /\ teamBuzz = NoBuzz
  /\ playerBuzz = NoBuzz
  /\ timestamp = UL(0, 0)
  /\ greenLED = LOW
  /\ led = [b \in Buzzers |-> LOW]
  /\ lcd = LcdOff
  /\ poll = <<>>
  /\ waited = 0
  /\ resetPress = FALSE
  /\ lastExit = "none"
  /\ menuEntry = 0
  /\ delayReset2 = 0
  /\ menuSteps = 0
  /\ menuPress = FALSE
  /\ analog = 0
  /\ probe = NoBuzz
  /\ lastRet = HIGH
  /\ runChanges = 0

\* setup(): the boot tune, the pin modes, the warm-up on the LCD, the green
\* LED; it reads numTeams, numPlayers and startupDelay and tests nothing
Setup ==
  /\ pc = "setup"
  /\ clock' = ULPlus(clock, SetupTime)
  /\ held' = [b \in Buttons |-> Cap]
  /\ led' = [b \in Buzzers |-> LOW]
  /\ greenLED' = HIGH
  /\ lcd' = LcdReady
  /\ pc' = "scan"
  /\ fresh' = FALSE
  /\ poll' = <<>>
  /\ UNCHANGED <<wrapped, fine, raw, buzzers, whiteButton, delayReset, sleep,
                 team, player, someoneBuzzed, teamBuzz, playerBuzz, timestamp,
                 waited, resetPress, lastExit, menuVars, analog, probe,
                 lastRet, runChanges>>

NextSetup == Setup \/ Next

SpecSetup == InitSetup /\ [][NextSetup]_vars

(***************************************************************************)
(* Harness of readButtonState: one button, polled at arbitrary times the   *)
(* way loop() polls it, over arbitrary raw samples                         *)
(***************************************************************************)
\* clock values at which the harness starts: the end of setup() and shortly
\* before the wraparound of millis()
ReaderStarts == {UL(0, SetupTime), ULMinus(UL(0, 0), UL(0, WrapLead))}

\* the Buttons loop() can hold: as initialised, and the white button as the
\* menu leaves it
InitReader ==
  /\ probe \in Buttons
  /\ clock \in ReaderStarts
  /\ wrapped = FALSE
  /\ fine = 0
  /\ raw = [b \in Buttons |-> HIGH]
  /\ held = [b \in Buttons |-> Cap]
  /\ fresh = FALSE
  /\ buzzers = [b \in Buzzers |-> Button(HIGH, LOW, 0)]
  /\ whiteButton \in {Button(HIGH, LOW, 0), Button(HIGH, HIGH, 0)}
  /\ delayReset = ULongToInt(delayResetMax)
  /\ pc = "reader"
  /\ sleep = 0
  /\ team = 0
  /\ player = 0
  /\ someoneBuzzed = FALSE
  /\ teamBuzz = NoBuzz
  /\ playerBuzz = NoBuzz
  /\ timestamp = UL(0, 0)
  /\ greenLED = HIGH
  /\ led = [b \in Buzzers |-> LOW]
  /\ lcd = LcdReady
  /\ poll = <<>>
  /\ waited = 0
  /\ resetPress = FALSE
  /\ lastExit = "none"
  /\ menuEntry = 0
  /\ delayReset2 = 0
  /\ menuSteps = 0
  /\ menuPress = FALSE
  /\ analog = 0
  /\ lastRet = HIGH
  /\ runChanges = 0

ctlVars == <<delayReset, pc, sleep, team, player, someoneBuzzed, teamBuzz,
             playerBuzz, timestamp, greenLED, led, lcd, waited, resetPress,
             lastExit, menuEntry, menuSteps, menuPress, delayReset2, analog,
             probe>>

ProbeButton == IF probe = WhiteId THEN whiteButton ELSE buzzers[probe]

\* state = readButtonState(b), as loop() calls it
ReaderPoll ==
  /\ pc = "reader"
  /\ LET r == readButtonState(ProbeButton, raw[probe], clock)
         after == ArgumentAfterCall(ProbeButton, r)
     IN  /\ whiteButton' = IF probe = WhiteId THEN after ELSE whiteButton
         /\ buzzers' = IF probe = WhiteId THEN buzzers
                       ELSE [buzzers EXCEPT ![probe] = after]
         /\ poll' = <<[button |-> probe, reading |-> raw[probe],
                       ret |-> r.buttonState, held |-> held[probe],
                       prev |-> lastRet]>>
         /\ lastRet' = r.buttonState
         /\ runChanges' = IF r.buttonState # lastRet
                            THEN runChanges + 1
                            ELSE runChanges
  /\ fresh' = TRUE
  /\ UNCHANGED <<clock, wrapped, fine, raw, held, ctlVars>>

\* the line of the button changes level
ReaderRaw ==
  /\ pc = "reader"
  /\ raw' = [raw EXCEPT ![probe] = Flip(@)]
  /\ held' = [held EXCEPT ![probe] = 0]
  /\ runChanges' = 0
  /\ fresh' = FALSE
  /\ poll' = <<>>
  /\ UNCHANGED <<clock, wrapped, fine, buzzers, whiteButton, lastRet,
                 ctlVars>>

\* d ms pass
ReaderTick(d) ==
  /\ pc = "reader"
  /\ d < TickLong => fine < MaxFine
  /\ fine' = IF d < TickLong THEN fine + 1 ELSE fine
  /\ clock' = ULPlus(clock, d)
  /\ wrapped' = (wrapped \/ ULLess(ULPlus(clock, d), clock))
  /\ InHorizon(clock', wrapped')
  /\ held' = [b \in Buttons |-> Min(held[b] + d, Cap)]
  /\ fresh' = FALSE
  /\ poll' = <<>>
  /\ UNCHANGED <<raw, buzzers, whiteButton, lastRet, runChanges, ctlVars>>

NextReader ==
  \/ ReaderPoll
  \/ ReaderRaw
  \/ \E d \in {TickShort, TickLong} : ReaderTick(d)

SpecReader == InitReader /\ [][NextReader]_vars

(***************************************************************************)
(* The potentiometer revision with the LCD: its Buttons start as           *)
(* {LOW, LOW, 0}; one buzz from the scan to the end of the wait            *)
(***************************************************************************)
debounceDelayPot == 500
startupDelayPot == 35000

\* ms spent in the delay() calls of setup() of this revision
SetupTimePot == ((15000 - 150) \div 10 + 1) + 5 * (startupDelayPot \div 5) + 100

\* readButtonState of this revision, on its parameter `button`
readButtonStatePot(button, reading, millis) ==
  LET ldt == IF reading # button.lastButtonState
               THEN ULongToInt(millis)
               ELSE button.lastDebounceTime
      elapsed == ULMinus(millis, IntToULong(ldt))
      bs == IF ULLess(UL(0, debounceDelayPot), elapsed)
              THEN reading
              ELSE button.buttonState
  IN  Button(bs, reading, ldt)

AnalogRange == 0 .. analogMax

\* clock values at which a buzz is looked at: the end of setup() and shortly
\* before the wraparound of millis()
PotStarts == {UL(0, SetupTimePot), ULMinus(UL(0, 0), UL(0, WrapLead))}

InitPot ==
  /\ analog \in AnalogRange
  /\ clock \in PotStarts
  /\ wrapped = FALSE
  /\ fine = 0
  /\ raw = [b \in Buttons |-> HIGH]
  /\ held = [b \in Buttons |-> Cap]
  /\ fresh = FALSE
  /\ buzzers = [b \in Buzzers |-> Button(LOW, LOW, 0)]
  /\ whiteButton = Button(LOW, LOW, 0)
  /\ delayReset = ULongToInt(delayResetMax)
  /\ pc = "pot"
  /\ sleep = 0
  /\ team = 0
  /\ player = 0
  /\ someoneBuzzed = FALSE
  /\ teamBuzz = NoBuzz
  /\ playerBuzz = NoBuzz
  /\ timestamp = UL(0, 0)
  /\ greenLED = HIGH
  /\ led = [b \in Buzzers |-> LOW]
  /\ lcd = LcdReady
  /\ poll = <<>>
  /\ waited = 0
  /\ resetPress = FALSE
  /\ lastExit = "none"
  /\ menuEntry = 0
  /\ delayReset2 = 0
  /\ menuSteps = 0
  /\ menuPress = FALSE
  /\ probe = NoBuzz
  /\ lastRet = HIGH
  /\ runChanges = 0

potFrame == <<fine, raw, held, buzzers, whiteButton, sleep, resetPress,
              menuVars, analog, probe, lastRet, runChanges>>

\* record of a call of readButtonState of this revision on button b
PolledPot(b, button) ==
  [button |-> b, reading |-> raw[b],
   ret |-> readButtonStatePot(button, raw[b], clock).buttonState,
   held |-> held[b]]

\* the buzzers whose read returns LOW
PotLow ==
  {b \in Buzzers :
     readButtonStatePot(buzzers[b], raw[b], clock).buttonState = LOW}

\* the two for loops: the first buzzer that reads LOW, or none
PotFirst ==
  IF PotLow = {} THEN NoBuzz
  ELSE CHOOSE b \in PotLow : \A c \in PotLow : b <= c

\* the calls the scan makes: up to the first buzzer that reads LOW
PotScanPoll ==
  LET n == IF PotFirst = NoBuzz THEN numTeams * numPlayers ELSE PotFirst + 1
  IN  [k \in 1 .. n |-> PolledPot(k - 1, buzzers[k - 1])]

\* no buzzer reads LOW: loop() returns and is called again
PotMiss ==
  /\ pc = "pot"
  /\ PotFirst = NoBuzz
  /\ poll' = PotScanPoll
  /\ fresh' = TRUE
  /\ UNCHANGED <<clock, wrapped, timestamp, delayReset, pc, lastExit, waited,
                 team, player, someoneBuzzed, teamBuzz, playerBuzz, greenLED,
                 led, lcd, potFrame>>

\* a buzzer reads LOW: the winner is lit, the potentiometer is read and the
\* wait starts
PotLock ==
  /\ pc = "pot"
  /\ PotFirst # NoBuzz
  /\ poll' = PotScanPoll
  /\ team' = TeamOf(PotFirst)
  /\ player' = PlayerOf(PotFirst)
  /\ someoneBuzzed' = TRUE
  /\ teamBuzz' = team'
  /\ playerBuzz' = player'
  /\ greenLED' = LOW
  /\ led' = [led EXCEPT ![PotFirst] = HIGH]
  /\ lcd' = [mode |-> "buzz",
             x |-> IF team' = 1 THEN player' * 4 ELSE Abs(player' - 3) * 4,
             y |-> team' * 2, shown |-> 0]
  /\ PotentiometerRead
  /\ timestamp' = clock
  /\ pc' = "pot_wait"
  /\ lastExit' = "none"
  /\ waited' = 0
  /\ fresh' = TRUE
  /\ UNCHANGED <<clock, wrapped, potFrame>>

\* end of the wait: green LED on, winner's LED off, LCD reset
PotReset ==
  /\ greenLED' = HIGH
  /\ led' = [led EXCEPT ![BuzzerId(teamBuzz, playerBuzz)] = LOW]
  /\ lcd' = LcdReady
  /\ pc' = "pot_done"
  /\ fresh' = TRUE
  /\ UNCHANGED <<clock, wrapped, timestamp, delayReset, waited, team, player,
                 someoneBuzzed, teamBuzz, playerBuzz, potFrame>>

\* the delay has ended
PotTimeout ==
  /\ pc = "pot_wait"
  /\ ~WaitCondition
  /\ lastExit' = "timeout"
  /\ poll' = <<>>
  /\ PotReset

\* the delay has not ended and the white button reads LOW: break
PotManual ==
  /\ pc = "pot_wait"
  /\ WaitCondition
  /\ readButtonStatePot(whiteButton, raw[WhiteId], clock).buttonState = LOW
  /\ lastExit' = "manual"
  /\ poll' = <<PolledPot(WhiteId, whiteButton)>>
  /\ PotReset

\* the delay has not ended and the white button reads HIGH: next pass
PotPoll ==
  /\ pc = "pot_wait"
  /\ WaitCondition
  /\ readButtonStatePot(whiteButton, raw[WhiteId], clock).buttonState # LOW
  /\ poll' = <<PolledPot(WhiteId, whiteButton)>>
  /\ fresh' = TRUE
  /\ UNCHANGED <<clock, wrapped, timestamp, delayReset, pc, lastExit, waited,
                 team, player, someoneBuzzed, teamBuzz, playerBuzz, greenLED,
                 led, lcd, potFrame>>

\* TickLong ms pass between two passes of the wait
PotTick ==
  /\ pc = "pot_wait"
  /\ fresh
  /\ waited + TickLong <= Horizon
  /\ clock' = ULPlus(clock, TickLong)
  /\ wrapped' = (wrapped \/ ULLess(ULPlus(clock, TickLong), clock))
  /\ waited' = waited + TickLong
  /\ held' = [b \in Buttons |-> Min(held[b] + TickLong, Cap)]
  /\ poll' = <<>>
  /\ fresh' = FALSE
  /\ UNCHANGED <<timestamp, delayReset, pc, lastExit, team, player,
                 someoneBuzzed, teamBuzz, playerBuzz, greenLED, led, lcd,
                 fine, raw, buzzers, whiteButton, sleep, resetPress,
                 menuVars, analog, probe, lastRet, runChanges>>

NextPot ==
  \/ PotMiss
  \/ PotLock
  \/ PotTimeout
  \/ PotManual
  \/ PotPoll
  \/ PotTick
  \/ \E b \in {BuzzerId(0, 0), WhiteId} : RawChange(b)

SpecPot == InitPot /\ [][NextPot]_vars

(***************************************************************************)
(* The revision for the Nano, from the scan to the end of its menu: the    *)
(* menu is entered by a long press and its ceiling is delayReset2 =        *)
(* 2 * delayReset, computed when it is entered                             *)
(***************************************************************************)
debounceDelayNano == 500
startupDelayNano == 30000
\* initialiser of delayReset
delayResetNano == 3000

\* ms spent in the delay() calls of setup() of this revision
SetupTimeNano ==
  ((15000 - 150) \div 10 + 1) + 5 * (startupDelayNano \div 5) + 100

\* readButtonState of this revision, on its parameter `button`
readButtonStateNano(button, reading, millis) ==
  LET ldt == IF reading # button.lastButtonState
               THEN ULongToInt(millis)
               ELSE button.lastDebounceTime
      elapsed == ULMinus(millis, IntToULong(ldt))
      bs == IF ULLess(UL(0, debounceDelayNano), elapsed)
              THEN reading
              ELSE button.buttonState
  IN  Button(bs, reading, ldt)

InitNano ==
  /\ clock = UL(0, SetupTimeNano)
  /\ wrapped = FALSE
  /\ fine = 0
  /\ raw = [b \in Buttons |-> HIGH]
  /\ held = [b \in Buttons |-> Cap]
  /\ fresh = FALSE
  /\ buzzers = [b \in Buzzers |-> Button(HIGH, LOW, 0)]
  /\ whiteButton = Button(HIGH, LOW, 0)
  /\ delayReset = delayResetNano
  /\ delayReset2 = 0
  /\ pc = "nano"
  /\ sleep = 0
  /\ team = 0
  /\ player = 0
  /\ someoneBuzzed = FALSE
  /\ teamBuzz = NoBuzz
  /\ playerBuzz = NoBuzz
  /\ timestamp = UL(0, 0)
  /\ greenLED = HIGH
  /\ led = [b \in Buzzers |-> LOW]
  /\ lcd = LcdReady
  /\ poll = <<>>
  /\ waited = 0
  /\ resetPress = FALSE
  /\ lastExit = "none"
  /\ menuEntry = 0
  /\ menuSteps = 0
  /\ menuPress = FALSE
  /\ analog = 0
  /\ probe = NoBuzz
  /\ lastRet = HIGH
  /\ runChanges = 0

\* what loop() of this revision never assigns
nanoFrame == <<clock, wrapped, fine, raw, held, buzzers, whiteButton,
               greenLED, led, resetPress, analog, probe, lastRet,
               runChanges>>
nanoBuzz == <<someoneBuzzed, teamBuzz, playerBuzz, timestamp, waited,
              lastExit>>
nanoMenu == <<delayReset, delayReset2, menuEntry, menuSteps>>

NanoLow(b) ==
  readButtonStateNano(buzzers[b], raw[b], clock).buttonState = LOW

NanoWhiteLow ==
  readButtonStateNano(whiteButton, raw[WhiteId], clock).buttonState = LOW

\* The two nested for loops from buzzer i on, all reads being made at the
\* same millisecond: "hit" on the first buzzer that reads LOW, "hold" on the
\* first read of the white button that returns LOW, "miss" after the last
\* buzzer.
RECURSIVE NanoScanFrom(_)
NanoScanFrom(i) ==
  IF i >= numTeams * numPlayers THEN [kind |-> "miss", at |-> 0]
  ELSE IF NanoLow(i) THEN [kind |-> "hit", at |-> i]
  ELSE IF NanoWhiteLow THEN [kind |-> "hold", at |-> i]
  ELSE NanoScanFrom(i + 1)

\* the scan that resumes at the iterators team, player
NanoScan == NanoScanFrom(BuzzerId(team, player))

\* no read is LOW: loop() returns and is called again
NanoMiss ==
  /\ pc = "nano"
  /\ NanoScan.kind = "miss"
  /\ team' = 0
  /\ player' = 0
  /\ poll' = <<>>
  /\ fresh' = TRUE
  /\ UNCHANGED <<pc, sleep, lcd, menuPress, nanoBuzz, nanoMenu, nanoFrame>>

\* the white button reads LOW: delay(1000)
NanoHold ==
  /\ pc = "nano"
  /\ NanoScan.kind = "hold"
  /\ team' = TeamOf(NanoScan.at)
  /\ player' = PlayerOf(NanoScan.at)
  /\ sleep' = 1000
  /\ pc' = "nano_hold"
  /\ menuPress' = TRUE
  /\ poll' = <<>>
  /\ fresh' = TRUE
  /\ UNCHANGED <<lcd, nanoBuzz, nanoMenu, nanoFrame>>

\* after the delay the white button reads HIGH: the for loops go on
NanoSkip ==
  /\ pc = "nano_hold"
  /\ sleep = 0
  /\ ~NanoWhiteLow
  /\ NextIteration(BuzzerId(team, player))
  /\ pc' = "nano"
  /\ menuPress' = FALSE
  /\ poll' = <<>>
  /\ fresh' = TRUE
  /\ UNCHANGED <<sleep, lcd, nanoBuzz, nanoMenu, nanoFrame>>

\* delayReset * 2 does not fit the int it is computed in
DoubleOverflows(d) == d * 2 >= HalfWord \/ d * 2 < -HalfWord

\* after the delay the white button reads LOW again: delayReset2 =
\* delayReset * 2, setup mode.  The overflow of the product is undefined:
\* here the value the 16-bit multiplication leaves, in NanoTrap the stop of
\* a build that traps on overflow.
NanoEnter ==
  /\ pc = "nano_hold"
  /\ sleep = 0
  /\ NanoWhiteLow
  /\ delayReset2' = ToInt(delayReset * 2)
  /\ menuEntry' = delayReset
  /\ menuSteps' = 0
  /\ pc' = "nano_menu"
  /\ poll' = <<>>
  /\ fresh' = TRUE
  /\ UNCHANGED <<delayReset, sleep, team, player, lcd, menuPress, nanoBuzz,
                 nanoFrame>>

NanoTrap ==
  /\ pc = "nano_hold"
  /\ sleep = 0
  /\ NanoWhiteLow
  /\ DoubleOverflows(delayReset)
  /\ pc' = "nano_trap"
  /\ poll' = <<>>
  /\ fresh' = TRUE
  /\ UNCHANGED <<sleep, team, player, lcd, menuPress, nanoBuzz, nanoMenu,
                 nanoFrame>>

\* top of while (true): show the delay, delay(1000)
NanoShow ==
  /\ pc = "nano_menu"
  /\ lcd' = [mode |-> "menu", x |-> 0, y |-> 0, shown |-> delayReset]
  /\ sleep' = 1000
  /\ pc' = "nano_check"
  /\ poll' = <<>>
  /\ fresh' = TRUE
  /\ UNCHANGED <<team, player, menuPress, nanoBuzz, nanoMenu, nanoFrame>>

\* after the delay the white button reads LOW: confirmed, delay(2000)
NanoConfirm ==
  /\ pc = "nano_check"
  /\ sleep = 0
  /\ NanoWhiteLow
  /\ lcd' = [lcd EXCEPT !.mode = "confirmed"]
  /\ sleep' = 2000
  /\ pc' = "nano_leave"
  /\ poll' = <<>>
  /\ fresh' = TRUE
  /\ UNCHANGED <<team, player, menuPress, nanoBuzz, nanoMenu, nanoFrame>>

\* the if / else if chain that moves delayReset to the next candidate
NanoAdvance(d, d2) ==
  IF d < 0 THEN 1000
  ELSE IF d < d2 THEN ToInt(d + 1000)
  ELSE IF d >= d2 THEN -1
  ELSE d

\* after the delay the white button reads HIGH: next candidate delay
NanoStep ==
  /\ pc = "nano_check"
  /\ sleep = 0
  /\ ~NanoWhiteLow
  /\ delayReset' = NanoAdvance(delayReset, delayReset2)
  /\ pc' = "nano_menu"
  /\ poll' = <<>>
  /\ fresh' = TRUE
  /\ UNCHANGED <<delayReset2, menuEntry, menuSteps, sleep, team, player, lcd,
                 menuPress, nanoBuzz, nanoFrame>>

\* break out of while (true), reset_lcd_display(), back to the for loops
NanoLeave ==
  /\ pc = "nano_leave"
  /\ sleep = 0
  /\ lcd' = LcdReady
  /\ NextIteration(BuzzerId(team, player))
  /\ menuEntry' = 0
  /\ menuSteps' = 0
  /\ menuPress' = FALSE
  /\ pc' = "nano"
  /\ poll' = <<>>
  /\ fresh' = TRUE
  /\ UNCHANGED <<delayReset, delayReset2, sleep, nanoBuzz, nanoFrame>>

NanoEnd == ULPlus(UL(0, SetupTimeNano), NanoHorizon)

\* d ms pass: within a delay() at most what is left of it, between two scans
\* only after a change of the white button's line
NanoTick(d) ==
  /\ d > 0
  /\ IF sleep > 0 THEN d <= sleep
                  ELSE pc = "nano" /\ fresh /\ held[WhiteId] = 0
  /\ d \notin {TickLong, sleep} => fine < NanoMaxFine
  /\ fine' = IF d \notin {TickLong, sleep} THEN fine + 1 ELSE fine
  /\ clock' = ULPlus(clock, d)
  /\ ~ULLess(NanoEnd, clock')
  /\ held' = [b \in Buttons |-> Min(held[b] + d, Cap)]
  /\ sleep' = IF sleep > 0 THEN sleep - d ELSE 0
  /\ fresh' = FALSE
  /\ poll' = <<>>
  /\ UNCHANGED <<wrapped, raw, buzzers, whiteButton, delayReset, pc, team,
                 player, someoneBuzzed, teamBuzz, playerBuzz, timestamp,
                 greenLED, led, lcd, waited, resetPress, lastExit, menuVars,
                 analog, probe, lastRet, runChanges>>

NanoProgram ==
  \/ NanoMiss \/ NanoHold \/ NanoSkip \/ NanoEnter \/ NanoTrap
  \/ NanoShow \/ NanoConfirm \/ NanoStep \/ NanoLeave

\* the line of the white button changes level, some time after its last
\* change; the buzzers are left alone
NanoRaw ==
  /\ held[WhiteId] > 0
  /\ RawChange(WhiteId)

NextNano ==
  \/ NanoProgram
  \/ \E d \in {NanoTickShort, TickLong, sleep} : NanoTick(d)
  \/ NanoRaw

SpecNano == InitNano /\ [][NextNano]_vars

(***************************************************************************)
(* Scheduling: the wait loop keeps running and time keeps passing          *)
(***************************************************************************)
\* the input lines that change under this specification: one buzzer and the
\* white button
LiveButtons == {BuzzerId(0, 0), WhiteId}

TimePasses == \E d \in {TickLong, sleep} : Tick(d)

NextLive ==
  \/ Program
  \/ \E b \in LiveButtons : RawChange(b)
  \/ TimePasses

\* the steps of the while loops of the wait
WaitLoop ==
  \/ WaitTimeout \/ WaitPoll \/ WaitManual
  \/ ReleaseHeld \/ ReleaseDone

LiveSpec ==
  /\ Init
  /\ [][NextLive]_vars
  /\ WF_vars(WaitLoop)
  /\ SF_vars(TimePasses)

Locked == pc \in {"wait", "release"}
InMenu == pc \in {"menu", "menu_check", "menu_leave"}
Winner == BuzzerId(teamBuzz, playerBuzz)

TypeOK ==
  /\ pc \in {"scan", "menu", "menu_check", "menu_leave", "wait", "release",
            "reader"}
  /\ delayReset \in {-1, 1000, 2000, 3000, 4000, 5000, 10000}
  /\ team \in Teams /\ player \in Players
  /\ menuPress \in BOOLEAN
  /\ menuPress => raw[WhiteId] = LOW

(***************************************************************************)
(* Properties                                                              *)
(***************************************************************************)
JustLocked ==
  /\ pc = "wait"
  /\ poll # <<>>
  /\ poll[Len(poll)].button \in Buzzers

\* what a call of readButtonState on buzzer b returns now
WouldRead(b) == readButtonState(buzzers[b], raw[b], clock).buttonState

\* C1: the value readButtonState returns for a button differs from the value
\* of its previous call only if the raw input has been at the returned level
\* for at least debounceDelay ms; a raw change is never reported by the call
\* that first observes it.
C1_ChangeOnlyAfterDebounce ==
  \A i \in DOMAIN poll :
    poll[i].ret # poll[i].prev =>
      /\ poll[i].reading = poll[i].ret
      /\ poll[i].held >= debounceDelay

C3_LockedFrame ==
  [][(Locked /\ Locked') =>
       /\ teamBuzz' = teamBuzz
       /\ playerBuzz' = playerBuzz
       /\ led' = led
       /\ greenLED' = greenLED
       /\ lcd' = lcd
       /\ \A i \in DOMAIN poll' : poll'[i].button = WhiteId]_vars

C3_Witness ==
  /\ Locked
  /\ poll # <<>>
  /\ poll[1].button = WhiteId
  /\ \E b \in Buzzers \ {Winner} : raw[b] = LOW /\ held[b] < Cap
  /\ led[Winner] = HIGH

\* C4: with a finite delay the wait is left by the timer only once at least
\* delayReset ms have passed since the timestamp was taken.
C4_NoEarlyTimeout ==
  [][(pc = "wait" /\ pc' = "scan") =>
       (delayReset >= 0 /\ waited >= delayReset)]_vars

C4_Witness ==
  /\ lastExit = "timeout"
  /\ pc = "scan"
  /\ delayReset >= 0

\* C5: with the infinite delay (delayReset < 0) the wait is only ever left by
\* a read of the white button that returns LOW, however long it lasts.
C5_InfiniteNeedsManual ==
  [][(pc = "wait" /\ delayReset < 0 /\ pc' # "wait") =>
       /\ pc' = "release"
       /\ Len(poll') = 1
       /\ poll'[1].button = WhiteId
       /\ poll'[1].ret = LOW]_vars

C5_Witness ==
  /\ pc = "wait"
  /\ delayReset < 0
  /\ waited >= menuDelay
  /\ fresh

\* the end of a finite wait lies within the explored time
DeadlineInHorizon ==
  /\ ~wrapped
  /\ clock.hi = 0
  /\ clock.lo + (delayReset - waited) <= SetupTime + Horizon

\* C6: with a finite delay, a wait during which the white button is never
\* pressed is eventually left, and the machine scans again.
C6_FiniteWaitEnds ==
  (pc = "wait" /\ delayReset >= 0 /\ DeadlineInHorizon)
    ~> \/ /\ pc = "scan"
          /\ greenLED = HIGH
          /\ \A b \in Buzzers : led[b] = LOW
       \/ raw[WhiteId] = LOW

C6_Witness ==
  /\ lastExit = "timeout"
  /\ pc = "scan"
  /\ greenLED = HIGH
  /\ \A b \in Buzzers : led[b] = LOW
  /\ raw[WhiteId] = HIGH

C8_ResetPressNeverOpensMenu == resetPress => ~InMenu

\* C9: a call of readButtonState made more than debounceDelay ms after the
\* last change of the raw input returns the level of the raw input.
C9_StableLevelIsReturned ==
  \A i \in DOMAIN poll :
    poll[i].held > debounceDelay => poll[i].ret = poll[i].reading

\* C10: a buzzer whose raw input has not been LOW for debounceDelay ms does
\* not make the machine leave the scan for the wait.
C10_FlickerNeverLocks ==
  JustLocked => poll[Len(poll)].held >= debounceDelay

\* C11: between two changes of level of a button's line the value returned
\* by readButtonState changes at most once, whenever the calls are made.
C11_OneChangePerRun == runChanges <= 1

\* C12: a call of readButtonState leaves in the Button of the caller what
\* its body computed: the sample read in lastButtonState, the time of the call
\* in lastDebounceTime if the sample differs from the recorded one, and the
\* returned value in buttonState.
C12_CallUpdatesRecord ==
  [][(pc = "reader" /\ poll' # <<>>) =>
       ProbeButton' = readButtonState(ProbeButton, raw[probe], clock)]_vars

\* C13: the wait is only left for the scan, and the menu is only left for
\* the scan: the menu is never entered from the wait nor the wait from the
\* menu, and while the menu is open only the white button is read.
C13_ControllerTransitions ==
  [][/\ Locked => (Locked' \/ pc' = "scan")
     /\ InMenu => (InMenu' \/ pc' = "scan")
     /\ InMenu => \A i \in DOMAIN poll' : poll'[i].button = WhiteId]_vars

C13_Witness ==
  /\ pc = "scan"
  /\ lastExit = "manual"
  /\ delayReset # ULongToInt(delayResetMax)

\* the step of the menu applied n times to the delay d
RECURSIVE StepN(_, _)
StepN(n, d) == IF n = 0 THEN d ELSE MenuAdvance(StepN(n - 1, d))

\* C14: when the menu is left after n checks that read the white button HIGH
\* and one that read it LOW, delayReset is the delay at the entry of the menu
\* advanced n times; with n = 0 it is the delay at the entry.
C14_MenuRoundTrip ==
  [][(pc = "menu_leave" /\ pc' = "scan") =>
       delayReset' = StepN(menuSteps, menuEntry)]_vars

C14_Witness ==
  /\ pc = "menu_leave"
  /\ menuEntry = ULongToInt(delayResetMax)
  /\ menuSteps = 3
  /\ delayReset = 1000

C16_ConfirmedByNewPress == pc = "menu_leave" => ~menuPress

\* C17: a check of the menu made while the white button's line is LOW leaves
\* the menu (pc goes to the confirmation) and does not change delayReset.
C17_PressedCheckLeavesMenu ==
  [][(pc = "menu_check" /\ pc' # "menu_check" /\ raw[WhiteId] = LOW) =>
       (pc' = "menu_leave" /\ delayReset' = delayReset)]_vars

\* C18: while the scan runs the green LED is on and every buzzer's LED is
\* off; during the wait the green LED is off and the only buzzer LED that is
\* on is the one of (teamBuzz, playerBuzz); never are two buzzer LEDs on.
C18_Indicators ==
  /\ pc = "scan" => /\ greenLED = HIGH
                    /\ \A b \in Buzzers : led[b] = LOW
  /\ Locked => /\ greenLED = LOW
               /\ teamBuzz \in Teams
               /\ playerBuzz \in Players
               /\ \A b \in Buzzers : led[b] = HIGH <=> b = Winner
  /\ Cardinality({b \in Buzzers : led[b] = HIGH}) <= 1

C18_Witness ==
  /\ Locked
  /\ lastExit = "none"
  /\ waited > 0
  /\ Winner # 0
  /\ led[Winner] = HIGH
  /\ \E b \in Buzzers \ {Winner} : raw[b] = LOW

\* C19: delayReset changes only in an iteration of the menu that does not
\* confirm, or, when the potentiometer is used, in the lock that starts the
\* wait; the scan, the calls of readButtonState, the wait and the reset leave
\* it as it is.
C19_DelayResetFrame ==
  [][delayReset' # delayReset =>
       \/ pc = "menu_check" /\ pc' = "menu"
       \/ usePotentiometer /\ pc = "scan" /\ pc' = "wait"
       \/ pc = "pot" /\ pc' = "pot_wait"]_vars

C19_Witness ==
  /\ pc = "scan"
  /\ lastExit = "manual"
  /\ delayReset = 10000
  /\ poll # <<>>

\* C20: after a reading of the potentiometer above 1000 the delay computed by
\* the lock is negative and the condition of the wait holds whatever the
\* clock shows.
C20_ManualAbove1000 ==
  (pc \in {"pot_wait", "pot_done"} /\ analog > 1000) =>
    /\ delayReset < 0
    /\ pc = "pot_wait" => WaitCondition
    /\ pc = "pot_done" => lastExit = "manual"

C20_Witness ==
  /\ pc = "pot_done"
  /\ analog = analogMax
  /\ delayReset = -30414
  /\ waited >= 5000

\* C21: after a reading v of the potentiometer in 0 .. 1000 the delay computed
\* by the lock is v * 5000 / 1000 in integer division, lies between 0 and
\* delayResetMax, and is not below the delay computed for the reading v - 1.
C21_LinearBelow1000 ==
  (pc \in {"pot_wait", "pot_done"} /\ analog <= 1000) =>
    /\ delayReset = (analog * 5000) \div 1000
    /\ delayReset \in 0 .. 5000
    /\ analog > 0 => PotDelay(PotValue(analog - 1)) <= delayReset

C21_Witness ==
  /\ pc = "pot_done"
  /\ lastExit = "timeout"
  /\ analog = 1000
  /\ delayReset = 5000

\* C22: with a finite delay the condition of the wait holds exactly while
\* fewer than delayReset ms have passed since the timestamp was taken, also
\* when millis() has wrapped around since then; once they have passed, the
\* next step of loop() ends the wait by the timer.
C22_TimeoutAcrossWraparound ==
  /\ []((pc = "wait" /\ delayReset >= 0) =>
          (WaitCondition <=> waited < delayReset))
  /\ [][(pc = "wait" /\ delayReset >= 0 /\ waited >= delayReset /\ fresh') =>
          (pc' = "scan" /\ lastExit' = "timeout")]_vars

C22_Witness ==
  /\ pc = "scan"
  /\ lastExit = "timeout"
  /\ fresh
  /\ poll = <<>>
  /\ wrapped
  /\ clock.hi = 0
  /\ clock.lo < delayReset

\* C23: what loop() does next is a function of its state, the levels of the
\* input lines and the clock: the position it goes to, and the winner it
\* records when it goes from the scan to the wait, are the same whenever
\* these are the same.
C23_StepIsAFunction ==
  [][fresh' =>
       LET start == BuzzerId(team, player)
           low == {b \in start .. (WhiteId - 1) : WouldRead(b) = LOW}
           first == CHOOSE b \in low : \A c \in low : b <= c
           white == ReadWhite.buttonState = LOW
           menu == white /\ ~usePotentiometer
           hit == IF menu THEN start \in low ELSE low # {}
           winner == IF menu THEN start ELSE first
           to == CASE pc = "scan" ->
                        IF hit THEN "wait" ELSE IF menu THEN "menu" ELSE "scan"
                   [] pc = "menu" -> "menu_check"
                   [] pc = "menu_check" ->
                        IF white THEN "menu_leave" ELSE "menu"
                   [] pc = "menu_leave" -> "scan"
                   [] pc = "wait" ->
                        IF ~WaitCondition THEN "scan"
                        ELSE IF white THEN "release" ELSE "wait"
                   [] pc = "release" -> IF white THEN "release" ELSE "scan"
       IN  /\ pc' = to
           /\ (pc = "scan" /\ hit) => BuzzerId(teamBuzz', playerBuzz') = winner
    ]_vars

C23_Witness ==
  /\ JustLocked
  /\ Cardinality(Pressed) = 2
  /\ raw[WhiteId] = LOW
  /\ \A b \in Pressed : Winner <= b
  /\ lastExit = "none"
  /\ delayReset = 10000

\* C24: in a scan that ends in the wait the last call of readButtonState is
\* the one on the winner: no buzzer after the winner is read, and the white
\* button is not read after the winner either.
C24_ScanStopsAtFirstHit ==
  [][(pc = "scan" /\ pc' = "wait") =>
       LET w == BuzzerId(teamBuzz', playerBuzz')
           n == Len(poll')
       IN  /\ n > 0
           /\ poll'[n].button = w
           /\ \A i \in 1 .. (n - 1) :
                \/ poll'[i].button = WhiteId
                \/ poll'[i].button < w]_vars

C24_Witness ==
  /\ JustLocked
  /\ Winner = BuzzerId(1, 0)
  /\ raw[BuzzerId(1, 1)] = LOW
  /\ Len(poll) = 9
  /\ poll[8].button = WhiteId

\* C25: a pass of the wait made while the line of the white button reads
\* HIGH never leaves the wait through the white button.
C25_HighLineNeverResets ==
  [][(pc = "pot_wait" /\ raw[WhiteId] = HIGH /\ fresh') =>
       lastExit' # "manual"]_vars

\* C27: the scan starts the wait only on a buzzer whose line reads LOW, the
\* level the scan compares the filtered state with.
C27_LockOnlyOnPressedLine ==
  [][(pc = "pot" /\ pc' = "pot_wait") =>
       raw[BuzzerId(teamBuzz', playerBuzz')] = LOW]_vars

\* C26: setup() started with an initial delay that is not positive does not
\* reach the scan of loop().
C26_InvalidDelayStopsSetup ==
  [][(pc = "setup" /\ delayReset <= 0) => pc' = "setup"]_vars

\* C28: a call of readButtonState whose reading differs from the last
\* reading of its Button returns the state the Button had before the call.
C28_ChangeDoesNotCommit ==
  [][(pc = "reader" /\ fresh'
        /\ raw[probe] # ProbeButton.lastButtonState) =>
       lastRet' = ProbeButton.buttonState]_vars

\* C29: once a menu session has left whiteButton at {HIGH, HIGH, 0}, a pass
\* of loop() made while a new press of the white button has been held for
\* more than debounceDelay ms ends the wait and, from a scan with no buzzer
\* pressed, opens the menu.
C29_PressAfterMenuWorks ==
  [][(/\ whiteButton = Button(HIGH, HIGH, 0)
      /\ raw[WhiteId] = LOW
      /\ held[WhiteId] = Cap
      /\ ~menuPress
      /\ fresh') =>
       /\ pc = "wait" => pc' # "wait"
       /\ (pc = "scan" /\ Pressed = {}) => pc' = "menu"]_vars

\* C30: while a buzz is handled the iterators team and player are the
\* recorded winner, and the LCD region and the lit LED are those of the
\* winner.
C30_IteratorsAreWinner ==
  pc \in {"wait", "release"} =>
    /\ team = teamBuzz
    /\ player = playerBuzz
    /\ lcd.mode = "buzz"
    /\ lcd.y = teamBuzz * 2
    /\ lcd.x = IF teamBuzz = 1 THEN playerBuzz * 4
                              ELSE Abs(playerBuzz - 3) * 4
    /\ \A b \in Buzzers : led[b] = HIGH <=> b = Winner

\* a scan that resumed at the second buzzer after a menu session locks on the
\* first buzzer of the second team
C30_Witness ==
  /\ JustLocked
  /\ whiteButton = Button(HIGH, HIGH, 0)
  /\ poll[1].button = BuzzerId(0, 1)
  /\ Winner = BuzzerId(1, 0)
  /\ team = 1
  /\ player = 0

\* C31: delayReset is -1 or a positive multiple of 1000 and never 0; the menu
\* shows "Delai infini" exactly for a negative delay, and the condition of
\* the wait holds when the wait starts.
C31_DelayNeverZero ==
  /\ delayReset = -1 \/ (delayReset > 0 /\ delayReset % 1000 = 0)
  /\ lcd.mode = "menu" =>
       (MenuMessage(lcd.shown).text = "Delai infini" <=> lcd.shown < 0)
  /\ (pc = "wait" /\ timestamp = clock) => WaitCondition

\* a buzz locked with the infinite delay that a menu session has confirmed
C31_Witness ==
  /\ JustLocked
  /\ whiteButton = Button(HIGH, HIGH, 0)
  /\ delayReset = -1
  /\ timestamp = clock

\* C32: in a session of the menu entered with a positive delay d0, an
\* iteration that does not confirm adds 1000 ms to a delay below 2 * d0,
\* turns a delay that has reached 2 * d0 into -1 and turns -1 into 1000 ms,
\* so that the delay never exceeds 2 * d0.
C32_CycleUpToTwiceTheEntry ==
  [][(pc = "nano_check" /\ pc' = "nano_menu" /\ menuEntry > 0) =>
       /\ delayReset' = IF delayReset < 0 THEN 1000
                        ELSE IF delayReset < 2 * menuEntry
                          THEN delayReset + 1000
                          ELSE -1
       /\ delayReset' <= 2 * menuEntry]_vars

\* C33: whenever the second read of the long press returns LOW, the menu is
\* entered with delayReset2 equal to twice delayReset, a value of the range
\* of a 16-bit int.
C33_ProductFitsInt ==
  [][(pc = "nano_hold" /\ pc' \notin {"nano_hold", "nano"}) =>
       /\ pc' = "nano_menu"
       /\ delayReset2' = 2 * delayReset
       /\ delayReset2' < HalfWord]_vars

\* C34: the menu is entered only while the white button is still in the
\* press that the first read of the long press has seen, a press held for the
\* 1000 ms of the delay.
C34_EnteredByOneLongPress ==
  [][(pc = "nano_hold" /\ pc' = "nano_menu") => menuPress]_vars

\* C35: when the menu is left, the delay in force is the one that the display
\* has shown since the iteration that was confirmed: the seconds shown times
\* 1000 ms, or a negative delay under "Delai infini".
C35_ConfirmedIsShown ==
  [][((pc = "menu_leave" /\ pc' = "scan")
        \/ (pc = "nano_leave" /\ pc' = "nano")) =>
       LET m == MenuMessage(lcd.shown)
       IN  /\ lcd.mode = "confirmed"
           /\ IF m.text = "Delai infini" THEN delayReset' < 0
                                         ELSE delayReset' = m.sec * 1000]_vars

\* the scan after a menu session that was confirmed on its second candidate
C35_Witness ==
  /\ pc = "scan"
  /\ fresh
  /\ poll = <<>>
  /\ lastExit = "none"
  /\ whiteButton = Button(HIGH, HIGH, 0)
  /\ delayReset = 10000

====
